---- MODULE Spec2Model ----
(***************************************************************************)
(* Model of the LocalSense seller shim: the peer broadcast loop            *)
(* (neuronSeller.handleSellerStream / broadcastSample / buildSamplePayload *)
(* in neuron-seller/neuron_seller.go) and the HTTP NDJSON stream loop      *)
(* (streamHandler in the seller shim's main file).                         *)
(*                                                                         *)
(* Timestamps are floating point seconds in the source.  A timestamp is    *)
(* modelled as a record [s, h]: s whole seconds (the floor) plus h halves  *)
(* of a second, so that 0.5 and -1.5 are representable.                     *)
(***************************************************************************)
EXTENDS Integers, Sequences, FiniteSets, TLC

\* ------------------------------------------------------------------ bounds
\* Number of peers the transport layer may hold in its buffer map.
NumPeers == 2

Peers == 1..NumPeers

\* Number of /stream requests the HTTP server may be serving at a time.
NumStreams == 2

Streams == 1..NumStreams

\* ------------------------------------------------------------ sensor data
Half(s, h) == [s |-> s, h |-> h]

\* "ts" absent from the sensor's JSON body.
Missing == [absent |-> TRUE]

\* JSON bodies GET <base>/metrics answers the two loops with: "ts" absent,
\* 0 or 1700000000; brightness 0.42 (in hundredths).
Bodies == [ts : { Missing, Half(0, 0), Half(1700000000, 0) }, brightness : { 42 }]

\* The wall-clock instant the tickers deliver: 2024-01-01T00:00:05.5Z.
NowValues == { Half(1704067205, 1) }

\* Readings and instants the builder is exercised on by itself: "ts" absent,
\* negative, zero, a fraction of a second, around a minute, a day and a leap
\* day, and the largest 32-bit second.
BuildTs ==
  { Missing, Half(-1700000000, 0), Half(-2, 1), Half(-1, 0), Half(-1, 1),
    Half(0, 0), Half(0, 1), Half(1, 0), Half(1, 1), Half(59, 1),
    Half(86399, 0), Half(86400, 0), Half(951782400, 0), Half(951868799, 1),
    Half(1700000000, 0), Half(1704067199, 1), Half(2147483647, 0) }

BuildBodies == [ts : BuildTs, brightness : { 10, 42 }]

BuildNows ==
  { Half(1704067200, 0), Half(1704067205, 1), Half(1709251199, 0),
    Half(1, 1) }

\* SellerConfig, set once by loadConfig.
sellerCfg ==
  [SellerID |-> "pi-1", Label |-> "porch", Lat |-> 515, Lon |-> -12]

\* neuronSellerConfig.SampleKind after ensureDefaults.
SampleKind == "brightness_sample"

\* ------------------------------------------------------- time conversions
\* int64(f) of a float64: truncation toward zero.
Int64(ts) ==
  IF ts.s >= 0 \/ ts.h = 0 THEN ts.s ELSE ts.s + 1

\* time.Time.Unix(): whole seconds since the epoch (floor).
Unix(t) == t.s

\* Civil date of a day count since 1970-01-01 (proleptic Gregorian, UTC).
CivilFromDays(days) ==
  LET z   == days + 719468
      era == z \div 146097
      doe == z - era * 146097
      yoe == (doe - doe \div 1460 + doe \div 36524 - doe \div 146096) \div 365
      doy == doe - (365 * yoe + yoe \div 4 - yoe \div 100)
      mp  == (5 * doy + 2) \div 153
      d   == doy - (153 * mp + 2) \div 5 + 1
      m   == IF mp < 10 THEN mp + 3 ELSE mp - 9
      y   == yoe + era * 400 + (IF m <= 2 THEN 1 ELSE 0)
  IN  <<y, m, d>>

\* time.Unix(sec, 0)
TimeUnix(sec) == Half(sec, 0)

\* t.UTC().Format(time.RFC3339): the fields of "YYYY-MM-DDThh:mm:ssZ" as
\* <<YYYY, MM, DD, hh, mm, ss>>; the fraction of a second is not printed.
FormatRFC3339(t) ==
  LET sec  == t.s
      days == sec \div 86400
      rem  == sec % 86400
  IN  CivilFromDays(days) \o <<rem \div 3600, (rem % 3600) \div 60, rem % 60>>

\* Reading an RFC3339 UTC string back: seconds since the epoch.
DaysFromCivil(y0, m, d) ==
  LET y   == IF m <= 2 THEN y0 - 1 ELSE y0
      era == y \div 400
      yoe == y - era * 400
      mp  == IF m > 2 THEN m - 3 ELSE m + 9
      doy == (153 * mp + 2) \div 5 + d - 1
      doe == yoe * 365 + yoe \div 4 - yoe \div 100 + doy
  IN  era * 146097 + doe - 719468

ParseRFC3339(iso) ==
  DaysFromCivil(iso[1], iso[2], iso[3]) * 86400
    + iso[4] * 3600 + iso[5] * 60 + iso[6]

\* ------------------------------------------------------------ the builder
\* json.Decoder.Decode into piMetrics{Ts, Brightness float64}: an absent
\* "ts" leaves the zero value.
DecodeMetrics(body) ==
  [Ts |-> IF body.ts = Missing THEN Half(0, 0) ELSE body.ts,
   Brightness |-> body.brightness]

\* buildSamplePayload taking only negative timestamps for invalid.
buildSamplePayloadZeroValid(now, metrics) ==
  LET t == Int64(metrics.Ts)
  IN  [ts         |-> IF t >= 0 THEN t ELSE Unix(now),
       ts_iso     |-> FormatRFC3339(IF t >= 0 THEN TimeUnix(t) ELSE now),
       brightness |-> metrics.Brightness,
       seller_id  |-> sellerCfg.SellerID,
       source     |-> sellerCfg.SellerID,
       label      |-> sellerCfg.Label,
       lat        |-> sellerCfg.Lat,
       lon        |-> sellerCfg.Lon,
       kind       |-> SampleKind]

\* buildSamplePayload printing the tick's time whatever the reading says.
buildSamplePayloadIsoOfNow(now, metrics) ==
  LET t == Int64(metrics.Ts)
  IN  [ts         |-> IF t > 0 THEN t ELSE Unix(now),
       ts_iso     |-> FormatRFC3339(now),
       brightness |-> metrics.Brightness,
       seller_id  |-> sellerCfg.SellerID,
       source     |-> sellerCfg.SellerID,
       label      |-> sellerCfg.Label,
       lat        |-> sellerCfg.Lat,
       lon        |-> sellerCfg.Lon,
       kind       |-> SampleKind]

\* neuronSeller.buildSamplePayload(now, metrics): the marshalled object.
buildSamplePayload(now, metrics) ==
  LET t       == Int64(metrics.Ts)
      tsEpoch == IF t > 0 THEN t ELSE Unix(now)
      isoTime == IF t > 0 THEN TimeUnix(t) ELSE now
  IN  [ts         |-> tsEpoch,
       ts_iso     |-> FormatRFC3339(isoTime),
       brightness |-> metrics.Brightness,
       seller_id  |-> sellerCfg.SellerID,
       source     |-> sellerCfg.SellerID,
       label      |-> sellerCfg.Label,
       lat        |-> sellerCfg.Lat,
       lon        |-> sellerCfg.Lon,
       kind       |-> SampleKind]

\* ------------------------------------------------------ the configuration
\* The value of an environment variable: text with or without white space
\* around it.  An unset variable reads as the empty text.
EnvValue(pad, text) == [pad |-> pad, text |-> text]

\* strings.TrimSpace
TrimSpace(v) == v.text

\* strings.ToLower on the texts used here.
ToLower(s) ==
  CASE s = "TRUE" -> "true"
    [] s = "Off"  -> "off"
    [] OTHER      -> s

\* strconv.Atoi on the texts used here: the number, or an error.
Atoi(s) ==
  CASE s = "0"  -> [err |-> FALSE, n |-> 0]
    [] s = "-5" -> [err |-> FALSE, n |-> -5]
    [] s = "1"  -> [err |-> FALSE, n |-> 1]
    [] s = "30" -> [err |-> FALSE, n |-> 30]
    [] OTHER    -> [err |-> TRUE, n |-> 0]

getEnvOrDefault(v, fallback) ==
  IF TrimSpace(v) = "" THEN fallback ELSE TrimSpace(v)

parseEnvBool(v, fallback) ==
  LET val == ToLower(TrimSpace(v))
  IN  IF val = "" THEN fallback
      ELSE IF val \in { "1", "true", "yes", "y", "on" } THEN TRUE
      ELSE IF val \in { "0", "false", "no", "n", "off" } THEN FALSE
      ELSE fallback

parseEnvInt(v, fallback) ==
  LET val == TrimSpace(v)
  IN  IF val = "" THEN fallback
      ELSE IF Atoi(val).err THEN fallback
      ELSE Atoi(val).n

\* ensureDefaults replacing only negative intervals.
ensureDefaultsNegativeOnly(c) ==
  [Enabled        |-> c.Enabled,
   Protocol       |-> IF c.Protocol = "" THEN "/localsense/brightness/v1"
                                         ELSE c.Protocol,
   Version        |-> IF c.Version = "" THEN "0.1.0" ELSE c.Version,
   StreamInterval |-> IF c.StreamInterval < 0 THEN 5 ELSE c.StreamInterval,
   SampleKind     |-> IF c.SampleKind = "" THEN "brightness_sample"
                                           ELSE c.SampleKind]

\* neuronSellerConfig.ensureDefaults.  StreamInterval is a time.Duration
\* counted in seconds: 5 is 5 * time.Second.
ensureDefaults(c) ==
  [Enabled        |-> c.Enabled,
   Protocol       |-> IF c.Protocol = "" THEN "/localsense/brightness/v1"
                                         ELSE c.Protocol,
   Version        |-> IF c.Version = "" THEN "0.1.0" ELSE c.Version,
   StreamInterval |-> IF c.StreamInterval <= 0 THEN 5 ELSE c.StreamInterval,
   SampleKind     |-> IF c.SampleKind = "" THEN "brightness_sample"
                                           ELSE c.SampleKind]

\* The struct literal of loadNeuronSellerConfig, read from the environment.
envConfig(env) ==
  [Enabled        |-> parseEnvBool(env.NEURON_ENABLE, FALSE),
   Protocol       |-> getEnvOrDefault(env.NEURON_PROTOCOL_ID,
                                      "/localsense/brightness/v1"),
   Version        |-> getEnvOrDefault(env.NEURON_VERSION, "0.1.0"),
   StreamInterval |-> parseEnvInt(env.NEURON_STREAM_INTERVAL_SECONDS, 5),
   SampleKind     |-> getEnvOrDefault(env.NEURON_SAMPLE_KIND,
                                      "brightness_sample")]

loadNeuronSellerConfig(env) == ensureDefaults(envConfig(env))

\* Environments the process is started in.
Envs ==
  [NEURON_ENABLE :
     { EnvValue(FALSE, ""), EnvValue(FALSE, "1"), EnvValue(TRUE, "TRUE"),
       EnvValue(FALSE, "Off"), EnvValue(FALSE, "maybe") },
   NEURON_PROTOCOL_ID :
     { EnvValue(FALSE, ""), EnvValue(TRUE, ""), EnvValue(TRUE, "/custom/v2") },
   NEURON_VERSION :
     { EnvValue(FALSE, ""), EnvValue(TRUE, ""), EnvValue(FALSE, "2.0") },
   NEURON_STREAM_INTERVAL_SECONDS :
     { EnvValue(FALSE, ""), EnvValue(FALSE, "abc"), EnvValue(FALSE, "0"),
       EnvValue(TRUE, "-5"), EnvValue(FALSE, "1"), EnvValue(FALSE, "30") },
   NEURON_SAMPLE_KIND :
     { EnvValue(FALSE, ""), EnvValue(FALSE, "lux") }]

\* Values of neuronSellerConfig that ensureDefaults is exercised on by
\* itself: every field unset, at its fallback, or set to something else.
Configs ==
  [Enabled        : BOOLEAN,
   Protocol       : { "", "/localsense/brightness/v1", "/custom/v2" },
   Version        : { "", "0.1.0", "2.0" },
   StreamInterval : { -5, 0, 1, 5, 30 },
   SampleKind     : { "", "brightness_sample", "lux" }]

\* --------------------------------------------------------------- state
VARIABLES
  buffers,    \* commonlib.NodeBuffers: peer -> bufferInfo, or NoBuffer
  ctxDone,    \* the SDK context of handleSellerStream is cancelled
  tickC,      \* ticker.C of handleSellerStream holds a tick
  pc,         \* position of handleSellerStream
  tick,       \* the time received from ticker.C for the tick in progress
  line,       \* broadcastSample's line (payload plus newline)
  rangeLeft,  \* keys of the range over the buffer map still to visit
  cur,        \* the peer whose WriteAndFlushBuffer is in progress
  fan,        \* what the tick in progress did to each peer (observation)
  hDone,      \* per /stream request: r.Context() is done
  hTickC,     \* ticker.C of its streamHandler holds a tick
  hpc,        \* position of its streamHandler
  hT,         \* the time received from its ticker
  hPayload,   \* the payload it is encoding
  hEncErr,    \* its enc.Encode has returned an error (observation)
  bIn,        \* the arguments of a call of buildSamplePayload by itself
  bOut,       \* and what it returned
  cIn,        \* a neuronSellerConfig before ensureDefaults
  cOut,       \* neuronCfg: what ensureDefaults made of it
  cRun        \* seller.cfg of the running node

peerVars ==
  <<buffers, ctxDone, tickC, pc, tick, line, rangeLeft, cur, fan>>
httpVars == <<hDone, hTickC, hpc, hT, hPayload, hEncErr>>
buildVars == <<bIn, bOut>>
cfgVars == <<cIn, cOut, cRun>>
vars == <<peerVars, httpVars, buildVars, cfgVars>>

NoBuffer == [present |-> FALSE]
NoPeer == 0
NoTime == [set |-> FALSE]
NoLine == [empty |-> TRUE]
Null == [null |-> TRUE]

\* types.Connected and the other values of bufferInfo.LibP2PState.
LibP2PStates == { "Connected", "Disconnected" }

BufferInfos ==
  [LibP2PState : LibP2PStates, IsOtherSideValidAccount : BOOLEAN]

\* What one tick did to one peer: the line handed to WriteAndFlushBuffer,
\* whether the write returned an error, the log entry, the error notice,
\* whether PeerSendErrorMessage failed to deliver it, and whether the
\* peer's entry had left the buffer map by the time the write returned,
\* and the topic the error notice was addressed to.
NoTopic == [topic |-> FALSE]

NoFan ==
  [wrote |-> NoLine, err |-> FALSE, log |-> "none", notice |-> FALSE,
   noticeErr |-> FALSE, gone |-> FALSE, noticeTo |-> NoTopic]

Init ==
  /\ buffers = [p \in Peers |-> NoBuffer]
  /\ ctxDone = FALSE
  /\ tickC = FALSE
  /\ pc = "select"
  /\ tick = NoTime
  /\ line = NoLine
  /\ rangeLeft = {}
  /\ cur = NoPeer
  /\ fan = [p \in Peers |-> NoFan]
  /\ hDone = [i \in Streams |-> FALSE]
  /\ hTickC = [i \in Streams |-> FALSE]
  /\ hpc = [i \in Streams |-> "start"]
  /\ hT = [i \in Streams |-> NoTime]
  /\ hPayload = [i \in Streams |-> NoLine]
  /\ hEncErr = [i \in Streams |-> FALSE]
  /\ bIn = NoLine
  /\ bOut = NoLine
  /\ cIn = NoLine
  /\ cOut = NoLine
  /\ cRun = NoLine

\* ------------------------------------------------ environment of the loops
\* The transport layer connects, validates, disconnects and removes peers.
\* An entry created while broadcastSample ranges over the map may or may not
\* be produced by that range.
Transport ==
  /\ \E p \in Peers, b \in BufferInfos \cup {NoBuffer} :
        /\ b # buffers[p]
        /\ buffers' = [buffers EXCEPT ![p] = b]
        /\ \/ rangeLeft' = rangeLeft
           \/ /\ pc = "range"
              /\ buffers[p] = NoBuffer
              /\ p \notin rangeLeft
              /\ rangeLeft' = rangeLeft \cup {p}
  /\ UNCHANGED <<ctxDone, tickC, pc, tick, line, fan, httpVars, buildVars,
                 cfgVars, cur>>

\* The SDK cancels the context handed to handleSellerStream.
Cancel ==
  /\ ~ctxDone
  /\ ctxDone' = TRUE
  /\ UNCHANGED <<buffers, tickC, pc, tick, line, rangeLeft, fan, httpVars,
                 buildVars, cfgVars, cur>>

\* time.NewTicker(s.cfg.StreamInterval): the runtime puts a tick in the
\* one-slot channel; a tick that finds the slot full is dropped.
TickerFire ==
  /\ pc # "stopped"
  /\ ~tickC
  /\ tickC' = TRUE
  /\ UNCHANGED <<buffers, ctxDone, pc, tick, line, rangeLeft, fan, httpVars,
                 buildVars, cfgVars, cur>>

\* ------------------------------------------------------- the peer loop
\* len(buffers.GetBufferMap()) == 0
MapIsEmpty(bufs) == \A p \in Peers : bufs[p] = NoBuffer

\* The keys of buffers.GetBufferMap().
MapKeys(bufs) == { p \in Peers : bufs[p] # NoBuffer }

\* Eligible without the account check.
EligibleConnectedOnly(b) == b.LibP2PState = "Connected"

\* The negation of broadcastSample's skip condition
\* (LibP2PState != types.Connected || !IsOtherSideValidAccount).
Eligible(b) ==
  ~(b.LibP2PState # "Connected" \/ ~b.IsOtherSideValidAccount)

\* LineFor with a field of the envelope varied by the receiving peer.
LineForPerPeer(p, l) == [l EXCEPT !.brightness = @ + p]

\* The bytes handed to WriteAndFlushBuffer for a peer: line for every peer.
LineFor(p, l) == l

\* OnFetchError as a return from the loop.
OnFetchErrorReturn == "stopped"

\* Where handleSellerStream goes after logging a fetch error: continue.
OnFetchError == "select"

\* OnBuildError as a return from the loop.
OnBuildErrorReturn == "stopped"

\* Where handleSellerStream goes after logging a build error: continue.
OnBuildError == "select"

\* AfterWriteError as a break out of the range.
AfterWriteErrorBreak(left) == {}

\* What is left of the range after a failed write: continue.
AfterWriteError(left) == left

\* AfterNoticeError as a return from broadcastSample.
AfterNoticeErrorReturn(left) == {}

\* What is left of the range after PeerSendErrorMessage failed: the call is
\* a statement, its outcome is not looked at, and the continue follows.
AfterNoticeError(left) == left

\* Log entry and error notice of one write of line l; sent tells whether
\* PeerSendErrorMessage got the notice out.
Report(l, ok, sent) ==
  [wrote     |-> l,
   err       |-> ~ok,
   log       |-> IF ok THEN "streamed" ELSE "failed",
   notice    |-> ~ok,
   noticeErr |-> ~ok /\ ~sent,
   gone      |-> FALSE,
   noticeTo  |-> NoTopic]

\* NoticeTo with every notice sent to the topic of the first peer.
NoticeToFirst(p) == [stdin |-> 1]

\* The topic PeerSendErrorMessage is given for the entry of peer p:
\* bufferInfo.RequestOrResponse.OtherStdInTopic.
NoticeTo(p) == [stdin |-> p]

\* What the write to peer p that returns ok (and whose notice is sent or
\* not) leaves on record.
Outcome(p, ok, sent) ==
  [Report(LineFor(p, line), ok, sent) EXCEPT
     !.gone = (buffers[p] = NoBuffer),
     !.noticeTo = IF ok THEN NoTopic ELSE NoticeTo(p)]

\* select, case <-ctx.Done(): return (the deferred ticker.Stop runs).
SelectCancel ==
  /\ pc = "select"
  /\ ctxDone
  /\ pc' = "stopped"
  /\ UNCHANGED <<buffers, ctxDone, tickC, tick, line, rangeLeft, fan,
                 httpVars, buildVars, cfgVars, cur>>

\* SelectTick as a receive that does not wait for the loop to be back at
\* its select (the tick's work handed to a goroutine of its own).
SelectTickConcurrent ==
  /\ pc # "stopped"
  /\ tickC
  /\ tickC' = FALSE
  /\ \E t \in NowValues :
        IF MapIsEmpty(buffers)
          THEN pc' = "select" /\ tick' = NoTime
          ELSE pc' = "fetch" /\ tick' = t
  /\ UNCHANGED <<buffers, ctxDone, line, rangeLeft, fan, httpVars, buildVars,
                 cfgVars, cur>>

\* select, case tick := <-ticker.C, up to the call of fetchPiMetrics.  When
\* both cases are ready the Go runtime picks one of them at random, so this
\* action is enabled whether or not ctxDone holds.
SelectTick ==
  /\ pc = "select"
  /\ tickC
  /\ tickC' = FALSE
  /\ \E t \in NowValues :
        IF MapIsEmpty(buffers)
          THEN pc' = "select" /\ tick' = NoTime
          ELSE pc' = "fetch" /\ tick' = t
  /\ UNCHANGED <<buffers, ctxDone, line, rangeLeft, fan, httpVars, buildVars,
                 cfgVars, cur>>

\* fetchPiMetrics returns an error.
FetchFail ==
  /\ pc = "fetch"
  /\ pc' = "fetcherr"
  /\ UNCHANGED <<buffers, ctxDone, tickC, tick, line, rangeLeft, fan,
                 httpVars, buildVars, cfgVars, cur>>

\* The fetch error is logged and the loop continues.
FetchErrContinue ==
  /\ pc = "fetcherr"
  /\ pc' = OnFetchError
  /\ tick' = NoTime
  /\ UNCHANGED <<buffers, ctxDone, tickC, line, rangeLeft, fan, httpVars,
                 buildVars, cfgVars, cur>>

\* fetchPiMetrics returns metrics and buildSamplePayload an error:
\* json.Marshal refuses a SELLER_LAT or SELLER_LON that is NaN or infinite,
\* which mustParseFloat lets through.
BuildFail ==
  /\ pc = "fetch"
  /\ pc' = "builderr"
  /\ UNCHANGED <<buffers, ctxDone, tickC, tick, line, rangeLeft, fan,
                 httpVars, buildVars, cfgVars, cur>>

\* The build error is logged and the loop continues.
BuildErrContinue ==
  /\ pc = "builderr"
  /\ pc' = OnBuildError
  /\ tick' = NoTime
  /\ UNCHANGED <<buffers, ctxDone, tickC, line, rangeLeft, fan, httpVars,
                 buildVars, cfgVars, cur>>

\* fetchPiMetrics returns metrics; buildSamplePayload; broadcastSample
\* appends the newline and starts ranging over the buffer map.
FetchOK ==
  /\ pc = "fetch"
  /\ \E body \in Bodies :
        line' = buildSamplePayload(tick, DecodeMetrics(body))
  /\ tick' = NoTime
  /\ rangeLeft' = MapKeys(buffers)
  /\ pc' = "range"
  /\ UNCHANGED <<buffers, ctxDone, tickC, fan, httpVars, buildVars, cfgVars,
                 cur>>

\* One iteration of broadcastSample's range up to the call of
\* WriteAndFlushBuffer: an entry removed before it is reached is not
\* produced; an ineligible entry is skipped; for an eligible one the write
\* begins.
RangeStep ==
  /\ pc = "range"
  /\ cur = NoPeer
  /\ \E p \in rangeLeft :
        /\ rangeLeft' = rangeLeft \ {p}
        /\ cur' = IF buffers[p] # NoBuffer /\ Eligible(buffers[p])
                    THEN p ELSE NoPeer
  /\ UNCHANGED <<buffers, ctxDone, tickC, pc, tick, line, fan, httpVars,
                 buildVars, cfgVars>>

\* RangeWrite giving up the rest of the range when the entry written to
\* has left the buffer map.
RangeWriteGoneAborts ==
  /\ pc = "range"
  /\ cur # NoPeer
  /\ \E ok \in BOOLEAN :
       \E sent \in (IF ok THEN { TRUE } ELSE BOOLEAN) :
         /\ fan' = [fan EXCEPT ![cur] = Outcome(cur, ok, sent)]
         /\ rangeLeft' =
              IF buffers[cur] = NoBuffer THEN {}
              ELSE IF ok THEN rangeLeft
              ELSE IF sent THEN AfterWriteError(rangeLeft)
              ELSE AfterNoticeError(AfterWriteError(rangeLeft))
  /\ cur' = NoPeer
  /\ UNCHANGED <<buffers, ctxDone, tickC, pc, tick, line, httpVars,
                 buildVars, cfgVars>>

\* WriteAndFlushBuffer returns: a success is logged; a failed write is
\* logged and answered with an error notice, which PeerSendErrorMessage may
\* or may not get out.  The transport may have changed or removed the entry
\* since the skip condition was evaluated; the write is made with the
\* bufferInfo the range produced and may succeed or fail all the same.
RangeWrite ==
  /\ pc = "range"
  /\ cur # NoPeer
  /\ \E ok \in BOOLEAN :
       \E sent \in (IF ok THEN { TRUE } ELSE BOOLEAN) :
         /\ fan' = [fan EXCEPT ![cur] = Outcome(cur, ok, sent)]
         /\ rangeLeft' =
              IF ok THEN rangeLeft
              ELSE IF sent THEN AfterWriteError(rangeLeft)
              ELSE AfterNoticeError(AfterWriteError(rangeLeft))
  /\ cur' = NoPeer
  /\ UNCHANGED <<buffers, ctxDone, tickC, pc, tick, line, httpVars,
                 buildVars, cfgVars>>

\* The range is exhausted: broadcastSample returns and the loop selects
\* again.
RangeDone ==
  /\ pc = "range"
  /\ rangeLeft = {}
  /\ cur = NoPeer
  /\ pc' = "select"
  /\ line' = NoLine
  /\ fan' = [p \in Peers |-> NoFan]
  /\ UNCHANGED <<buffers, ctxDone, tickC, tick, rangeLeft, httpVars,
                 buildVars, cfgVars, cur>>

\* ------------------------------------------------- the HTTP stream loop
\* The payload map of streamHandler: "ts" and "brightness" as decoded into
\* the map (a missing key reads as nil), "time_iso" from the tick.
StreamPayload(t, body) ==
  [ts         |-> IF body.ts = Missing THEN Null ELSE body.ts,
   brightness |-> body.brightness,
   seller_id  |-> sellerCfg.SellerID,
   lat        |-> sellerCfg.Lat,
   lon        |-> sellerCfg.Lon,
   label      |-> sellerCfg.Label,
   time_iso   |-> FormatRFC3339(t)]

\* OnEncodeError as a continue.
OnEncodeErrorContinue == "select"

\* Where streamHandler goes when enc.Encode fails: return.
OnEncodeError == "stopped"

\* Where streamHandler goes after logging a fetch error: continue.
OnStreamFetchError == "select"

\* A /stream request arrives and its handler starts.  w.(http.Flusher):
\* without it the handler answers 500 and returns.
StreamStart(i) ==
  /\ hpc[i] = "start"
  /\ \E ok \in BOOLEAN :
        hpc' = [hpc EXCEPT ![i] = IF ok THEN "select" ELSE "stopped"]
  /\ UNCHANGED <<peerVars, buildVars, cfgVars, hDone, hTickC, hT, hPayload, hEncErr>>

\* The client disconnects: r.Context() is done.
StreamCancel(i) ==
  /\ ~hDone[i]
  /\ hDone' = [hDone EXCEPT ![i] = TRUE]
  /\ UNCHANGED <<peerVars, buildVars, cfgVars, hTickC, hpc, hT, hPayload, hEncErr>>

\* time.NewTicker(5 * time.Second) of streamHandler.
StreamTickerFire(i) ==
  /\ hpc[i] \notin { "start", "stopped" }
  /\ ~hTickC[i]
  /\ hTickC' = [hTickC EXCEPT ![i] = TRUE]
  /\ UNCHANGED <<peerVars, buildVars, cfgVars, hDone, hpc, hT, hPayload, hEncErr>>

\* select, case <-r.Context().Done(): return.
StreamSelectDone(i) ==
  /\ hpc[i] = "select"
  /\ hDone[i]
  /\ hpc' = [hpc EXCEPT ![i] = "stopped"]
  /\ UNCHANGED <<peerVars, buildVars, cfgVars, hDone, hTickC, hT, hPayload, hEncErr>>

\* select, case t := <-ticker.C.
StreamSelectTick(i) ==
  /\ hpc[i] = "select"
  /\ hTickC[i]
  /\ hTickC' = [hTickC EXCEPT ![i] = FALSE]
  /\ \E t \in NowValues : hT' = [hT EXCEPT ![i] = t]
  /\ hpc' = [hpc EXCEPT ![i] = "fetch"]
  /\ UNCHANGED <<peerVars, buildVars, cfgVars, hDone, hPayload, hEncErr>>

\* fetchJSON returns an error.
StreamFetchFail(i) ==
  /\ hpc[i] = "fetch"
  /\ hpc' = [hpc EXCEPT ![i] = "fetcherr"]
  /\ UNCHANGED <<peerVars, buildVars, cfgVars, hDone, hTickC, hT, hPayload, hEncErr>>

\* The fetch error is logged and the loop continues.
StreamFetchErrContinue(i) ==
  /\ hpc[i] = "fetcherr"
  /\ hpc' = [hpc EXCEPT ![i] = OnStreamFetchError]
  /\ hT' = [hT EXCEPT ![i] = NoTime]
  /\ UNCHANGED <<peerVars, buildVars, cfgVars, hDone, hTickC, hPayload, hEncErr>>

\* fetchJSON fills the map; the payload is assembled.
StreamFetchOK(i) ==
  /\ hpc[i] = "fetch"
  /\ \E body \in Bodies :
        hPayload' = [hPayload EXCEPT ![i] = StreamPayload(hT[i], body)]
  /\ hT' = [hT EXCEPT ![i] = NoTime]
  /\ hpc' = [hpc EXCEPT ![i] = "encode"]
  /\ UNCHANGED <<peerVars, buildVars, cfgVars, hDone, hTickC, hEncErr>>

\* StreamEncode with an Encode error that ends the process (log.Fatalf):
\* every loop is stopped with it.
StreamEncodeFatal(i) ==
  /\ hpc[i] = "encode"
  /\ \E ok \in BOOLEAN :
        IF ok THEN hpc' = [hpc EXCEPT ![i] = "flush"]
                   /\ UNCHANGED <<hEncErr, pc>>
              ELSE /\ hpc' = [j \in Streams |-> "stopped"]
                   /\ hEncErr' = [hEncErr EXCEPT ![i] = TRUE]
                   /\ pc' = "stopped"
  /\ UNCHANGED <<buffers, ctxDone, tickC, tick, line, rangeLeft, fan,
                 buildVars, cfgVars, hDone, hTickC, hT, hPayload, cur>>

\* enc.Encode(payload): on error log and return, else go on to Flush.
StreamEncode(i) ==
  /\ hpc[i] = "encode"
  /\ \E ok \in BOOLEAN :
        IF ok THEN hpc' = [hpc EXCEPT ![i] = "flush"] /\ UNCHANGED hEncErr
              ELSE /\ hpc' = [hpc EXCEPT ![i] = OnEncodeError]
                   /\ hEncErr' = [hEncErr EXCEPT ![i] = TRUE]
  /\ UNCHANGED <<peerVars, buildVars, cfgVars, hDone, hTickC, hT, hPayload>>

\* flusher.Flush(), then back to the select.
StreamFlush(i) ==
  /\ hpc[i] = "flush"
  /\ hpc' = [hpc EXCEPT ![i] = "select"]
  /\ hPayload' = [hPayload EXCEPT ![i] = NoLine]
  /\ UNCHANGED <<peerVars, buildVars, cfgVars, hDone, hTickC, hT, hEncErr>>

\* ------------------------------------------------ the builder by itself
\* A call buildSamplePayload(now, metrics) on the metrics decoded from a body.
Build ==
  /\ \E now \in BuildNows, body \in BuildBodies :
        /\ bIn' = [now |-> now, body |-> body]
        /\ bOut' = buildSamplePayload(now, DecodeMetrics(body))
  /\ UNCHANGED <<peerVars, httpVars, cfgVars>>

\* ------------------------------------------ the configuration by itself
\* getNeuronSellerConfig: loadNeuronSellerConfig reads the environment,
\* once (neuronCfgOnce).
LoadConfig ==
  /\ cIn = NoLine
  /\ \E env \in Envs :
        /\ cIn' = envConfig(env)
        /\ cOut' = loadNeuronSellerConfig(env)
  /\ cRun' = NoLine
  /\ UNCHANGED <<peerVars, httpVars, buildVars>>

\* A call c.ensureDefaults() on a configuration of any content.
EnsureDefaults ==
  /\ \E c \in Configs :
        /\ cIn' = c
        /\ cOut' = ensureDefaults(c)
  /\ cRun' = NoLine
  /\ UNCHANGED <<peerVars, httpVars, buildVars>>

\* runNeuronSellerNode: an enabled configuration is given to the seller
\* through ensureDefaults once more.
RunNode ==
  /\ cOut # NoLine
  /\ cOut.Enabled
  /\ cRun = NoLine
  /\ cRun' = ensureDefaults(cOut)
  /\ UNCHANGED <<peerVars, httpVars, buildVars, cIn, cOut>>

\* ------------------------------------------------------- specifications
\* The peer loop and its environment.
NextPeer ==
  \/ Transport
  \/ Cancel
  \/ TickerFire
  \/ SelectCancel
  \/ SelectTick
  \/ FetchFail
  \/ FetchErrContinue
  \/ BuildFail
  \/ BuildErrContinue
  \/ FetchOK
  \/ RangeStep
  \/ RangeWrite
  \/ RangeDone

\* The HTTP stream loop of request i and its environment.
StreamLoop(i) ==
  \/ StreamStart(i)
  \/ StreamCancel(i)
  \/ StreamTickerFire(i)
  \/ StreamSelectDone(i)
  \/ StreamSelectTick(i)
  \/ StreamFetchFail(i)
  \/ StreamFetchErrContinue(i)
  \/ StreamFetchOK(i)
  \/ StreamEncode(i)
  \/ StreamFlush(i)

\* One /stream request is served.
NextStream == StreamLoop(1)

\* Every /stream request is served, each by a handler of its own.
NextStreams == \E i \in Streams : StreamLoop(i)

Next == NextPeer \/ NextStream

\* The process: the peer loop and an HTTP stream loop side by side.
Spec == Init /\ [][Next]_vars


\* The peer loop alone.
SpecPeer == Init /\ [][NextPeer]_vars

\* The peer loop with a transport that leaves the buffer map alone while
\* broadcastSample ranges over it.
TransportQuiet == pc # "range" /\ Transport

NextQuiet ==
  \/ TransportQuiet
  \/ Cancel
  \/ TickerFire
  \/ SelectCancel
  \/ SelectTick
  \/ FetchFail
  \/ FetchErrContinue
  \/ BuildFail
  \/ BuildErrContinue
  \/ FetchOK
  \/ RangeStep
  \/ RangeWrite
  \/ RangeDone

SpecQuiet == Init /\ [][NextQuiet]_vars

\* The process with that transport: the peer loop and an HTTP stream loop
\* side by side.
NextCalm == NextQuiet \/ NextStream

SpecCalm == Init /\ [][NextCalm]_vars

\* The process serving NumStreams /stream requests next to the peer loop.
\* The transport here only adds connected, validated peers and removes
\* them, and leaves the buffer map alone during a range.
TransportSteady ==
  /\ pc # "range"
  /\ \E p \in Peers :
        \E b \in { NoBuffer, [LibP2PState |-> "Connected",
                               IsOtherSideValidAccount |-> TRUE] } :
          /\ b # buffers[p]
          /\ buffers' = [buffers EXCEPT ![p] = b]
  /\ UNCHANGED <<ctxDone, tickC, pc, tick, line, rangeLeft, fan, httpVars,
                 buildVars, cfgVars, cur>>

NextServer ==
  \/ TransportSteady
  \/ Cancel
  \/ TickerFire
  \/ SelectCancel
  \/ SelectTick
  \/ FetchFail
  \/ FetchErrContinue
  \/ BuildFail
  \/ BuildErrContinue
  \/ FetchOK
  \/ RangeStep
  \/ RangeWrite
  \/ RangeDone
  \/ NextStreams

SpecServer == Init /\ [][NextServer]_vars

\* The envelope builder alone.
SpecBuild == Init /\ [][Build]_vars

\* The configuration alone.
NextConfig == LoadConfig \/ EnsureDefaults \/ RunNode

SpecConfig == Init /\ [][NextConfig]_vars

\* ---------------------------------------------------------------- claims
\* A sink the specification calls ConnectedValid.
ConnectedValid(p) ==
  /\ buffers[p] # NoBuffer
  /\ buffers[p].LibP2PState = "Connected"
  /\ buffers[p].IsOtherSideValidAccount

Written == { p \in Peers : fan[p].wrote # NoLine }
WriteFailed == { p \in Peers : fan[p].err }
ReportedFailed == { p \in Peers : fan[p].log = "failed" }
Notified == { p \in Peers : fan[p].notice }
BroadcastDone == pc = "range" /\ rangeLeft = {} /\ cur = NoPeer

\* C1: when broadcastSample has finished ranging over a registry that did
\* not change meanwhile, a write was attempted on every eligible sink, the
\* sinks logged as failed and sent an error notice are exactly those whose
\* write returned an error, and every sink written to was handed the tick's
\* line, whatever subset of the writes failed.
FanOutIsolation ==
  BroadcastDone =>
    /\ Written = { p \in Peers : ConnectedValid(p) }
    /\ ReportedFailed = WriteFailed
    /\ Notified = WriteFailed
    /\ WriteFailed \subseteq Written
    /\ \A p \in Written : fan[p].wrote = line

\* C1 witness: two eligible sinks, the write to one failed, the other was
\* still written and succeeded.
FanOutIsolationWitness ==
  /\ BroadcastDone
  /\ \A p \in Peers : ConnectedValid(p)
  /\ \E k \in Peers :
        /\ WriteFailed = {k}
        /\ \A p \in Peers \ {k} : fan[p].wrote = line /\ fan[p].log = "streamed"
  /\ Cardinality(Written) >= 2

\* C2 as claimed: a step that hands a line to a peer, logs about it or
\* sends it an error notice is taken only while that peer's buffer is
\* Connected and its account validated.
OnlyConnectedValidWritten ==
  [][\A p \in Peers :
       (fan'[p] # fan[p] /\ fan'[p] # NoFan) => ConnectedValid(p)]_vars

\* C2 as amended: a write to a peer begins only in a step in which that
\* peer's buffer is Connected and its account validated (the skip condition
\* evaluated on it is false), and a line, a log entry or an error notice
\* goes to a peer only as the outcome of a write begun so.
OnlyEligibleWritten ==
  /\ [][\A p \in Peers : (cur' = p /\ cur # p) => ConnectedValid(p)]_vars
  /\ [][\A p \in Peers :
          (fan'[p] # fan[p] /\ fan'[p] # NoFan) => cur = p]_vars

\* C2 witness: the range is over, a ConnectedValid peer was written to and
\* a Disconnected and a Connected but unvalidated peer were passed over.
OnlyConnectedValidWitness ==
  /\ BroadcastDone
  /\ \E a, b \in Peers :
        /\ ConnectedValid(a) /\ fan[a].wrote = line
        /\ buffers[b] # NoBuffer /\ ~ConnectedValid(b) /\ fan[b] = NoFan

\* C3: a tick received while no sink is eligible does not reach the call of
\* the Sensor Reader.
ZeroSinkSkip ==
  [][(pc = "select" /\ pc' = "fetch") =>
       \E p \in Peers : ConnectedValid(p)]_vars

\* A step in which a line is handed to some peer.
PeerWrite ==
  \E p \in Peers : fan'[p] # fan[p] /\ fan'[p].wrote # NoLine

\* A step in which the streamHandler of request i runs enc.Encode.
StreamWrite(i) == hpc[i] = "encode" /\ hpc'[i] # "encode"

\* C4: once the cancellation signal of a loop has fired, that loop performs
\* no sink write in any later step.
NoWriteAfterCancel ==
  [][/\ ctxDone => ~PeerWrite
     /\ \A i \in Streams : hDone[i] => ~StreamWrite(i)]_vars

\* C5: a loop that is at its select with both the cancellation signal and a
\* tick ready does not take the tick: the tick stays in the channel and the
\* loop stays at the select or stops.
CancelBeatsTick ==
  [][/\ (pc = "select" /\ ctxDone /\ tickC) =>
          (tickC' /\ pc' \in { "select", "stopped" })
     /\ \A i \in Streams :
          (hpc[i] = "select" /\ hDone[i] /\ hTickC[i]) =>
             (hTickC'[i] /\ hpc'[i] \in { "select", "stopped" })]_vars

\* C6: an error of enc.Encode leaves the HTTP stream loop stopped, and a
\* stopped stream loop stays stopped and builds, fetches and writes nothing;
\* a step in which a peer write fails leaves the peer loop in its range, the
\* range ends at the select, and the peer loop is stopped only when its
\* context is cancelled.
FailurePolicyAsymmetry ==
  /\ [](\A i \in Streams : hEncErr[i] => hpc[i] = "stopped")
  /\ [][\A i \in Streams :
          hpc[i] = "stopped" =>
            (hpc'[i] = "stopped" /\ hPayload'[i] = hPayload[i]
               /\ hT'[i] = hT[i])]_vars
  /\ [][(\E p \in Peers : fan'[p].err /\ ~fan[p].err) => pc' = "range"]_vars
  /\ [][(pc = "range" /\ pc' # "range") => pc' = "select"]_vars
  /\ [](pc = "stopped" => ctxDone)

\* C6 witness: the stream loop has stopped on an Encode error while the
\* peer loop, not cancelled, is past a failed write and still ranging.
FailurePolicyWitness ==
  /\ \E i \in Streams : hEncErr[i] /\ hpc[i] = "stopped" /\ ~hDone[i]
  /\ pc = "range" /\ ~ctxDone
  /\ WriteFailed # {}

\* C7: a tick whose fetch failed has written to no sink and sent no error
\* notice, its only continuation is back to the select with nothing else
\* changed, and every tick received at the select (of the peer loop: with a
\* non-empty buffer map) starts a fetch, whatever happened to the fetches
\* before it.
FetchFailureSkipsTick ==
  /\ [](pc = "fetcherr" =>
          (line = NoLine /\ \A p \in Peers : fan[p] = NoFan))
  /\ [][(pc = "fetcherr" /\ pc' # "fetcherr") =>
          (pc' = "select" /\ UNCHANGED <<line, fan, tickC>>)]_vars
  /\ [][(pc = "select" /\ tickC /\ ~tickC' /\ ~MapIsEmpty(buffers)) =>
          pc' = "fetch"]_vars
  /\ [](\A i \in Streams : hpc[i] = "fetcherr" => hPayload[i] = NoLine)
  /\ [][\A i \in Streams :
          (hpc[i] = "fetcherr" /\ hpc'[i] # "fetcherr") =>
            (hpc'[i] = "select" /\ UNCHANGED <<hPayload, hTickC, hEncErr>>)]_vars
  /\ [][\A i \in Streams :
          (hpc[i] = "select" /\ hTickC[i] /\ ~hTickC'[i]) =>
            hpc'[i] = "fetch"]_vars

\* C7 witness: both loops are at a failed fetch, neither cancelled, each
\* with the next tick already waiting in its channel.
FetchFailureWitness ==
  /\ pc = "fetcherr" /\ ~ctxDone /\ tickC
  /\ \E i \in Streams : hpc[i] = "fetcherr" /\ ~hDone[i] /\ hTickC[i]

\* C8: all lines handed to sinks within one tick are the same, namely the
\* line built from that tick's fetch, and no line outlives its tick: between
\* the end of one fan-out and the fetch of the next tick the loop holds no
\* line and has written to nobody, so a sink is never handed the line of an
\* earlier tick after the line of a later one.
DeliveryOrdering ==
  /\ [](\A p, q \in Written : fan[p].wrote = fan[q].wrote)
  /\ [](\A p \in Written : pc = "range" /\ fan[p].wrote = line)
  /\ [](pc # "range" => line = NoLine)
  /\ [][(pc = "range" /\ line' # line) => (pc' = "select" /\ line' = NoLine)]_vars

\* C8 witness: a fan-out has handed the same line to two sinks.
DeliveryOrderingWitness ==
  /\ BroadcastDone
  /\ Cardinality(Written) >= 2
  /\ \A p \in Written : fan[p].wrote = line

\* The builder was called on a reading whose timestamp is present and > 0.
BuiltPositive ==
  /\ bIn # NoLine
  /\ bIn.body.ts # Missing
  /\ (bIn.body.ts.s > 0 \/ (bIn.body.ts.s = 0 /\ bIn.body.ts.h > 0))

\* The builder was called on a reading whose timestamp is absent or <= 0.
BuiltInvalid ==
  /\ bIn # NoLine
  /\ \/ bIn.body.ts = Missing
     \/ bIn.body.ts.s < 0
     \/ (bIn.body.ts.s = 0 /\ bIn.body.ts.h = 0)

DaysIn(y, m) ==
  IF m = 2
    THEN (IF y % 4 = 0 /\ (y % 100 # 0 \/ y % 400 = 0) THEN 29 ELSE 28)
    ELSE (IF m \in { 4, 6, 9, 11 } THEN 30 ELSE 31)

\* iso is the RFC3339 UTC date and time of the instant sec.
IsUTCOf(iso, sec) ==
  /\ Len(iso) = 6
  /\ iso[2] \in 1..12
  /\ iso[3] \in 1..DaysIn(iso[1], iso[2])
  /\ iso[4] \in 0..23 /\ iso[5] \in 0..59 /\ iso[6] \in 0..59
  /\ ParseRFC3339(iso) = sec

\* C9 as claimed: for every reading with timestamp > 0, fractions of a
\* second below 1 included, the envelope's ts is the truncated timestamp and
\* ts_iso is the UTC date and time of that instant.
PositiveTimestampAny ==
  BuiltPositive =>
    /\ bOut.ts = bIn.body.ts.s
    /\ IsUTCOf(bOut.ts_iso, bIn.body.ts.s)

\* C9 as amended: for every reading whose timestamp is at least 1 second,
\* the envelope's ts is the truncated timestamp and ts_iso is the UTC date
\* and time of that instant.
PositiveTimestamp ==
  (BuiltPositive /\ bIn.body.ts.s >= 1) =>
    /\ bOut.ts = bIn.body.ts.s
    /\ IsUTCOf(bOut.ts_iso, bIn.body.ts.s)

\* C9 witness: ts 1700000000 gives ts 1700000000 and 2023-11-14T22:13:20Z.
PositiveTimestampWitness ==
  /\ BuiltPositive
  /\ bIn.body.ts = Half(1700000000, 0)
  /\ bOut.ts = 1700000000
  /\ bOut.ts_iso = <<2023, 11, 14, 22, 13, 20>>

\* C10: for every reading whose timestamp is absent, zero or negative, the
\* envelope's ts is the whole second of the supplied now and ts_iso is the
\* UTC date and time of that second.
InvalidTimestamp ==
  BuiltInvalid =>
    /\ bOut.ts = bIn.now.s
    /\ IsUTCOf(bOut.ts_iso, bIn.now.s)

\* C10 witness: ts 0 with now 2024-01-01T00:00:00Z gives that instant.
InvalidTimestampWitness ==
  /\ BuiltInvalid
  /\ bIn.body.ts = Half(0, 0)
  /\ bIn.now = Half(1704067200, 0)
  /\ bOut.ts = 1704067200
  /\ bOut.ts_iso = <<2024, 1, 1, 0, 0, 0>>

\* C11: every envelope handed to a sink by either loop has a ts that is a
\* number other than zero: the line written to a peer, and the payload
\* streamHandler has encoded onto the /stream response.
EmittedTsUsable ==
  /\ \A p \in Written : fan[p].wrote.ts > 0
  /\ \A i \in Streams :
       hpc[i] = "flush" =>
         /\ hPayload[i].ts # Null
         /\ hPayload[i].ts # Half(0, 0)

\* A step in which the write to p fails and the error notice for it is not
\* delivered either.
NoticeFails(p) == fan'[p] # fan[p] /\ fan'[p].noticeErr

\* C12: a failed write whose error notice fails too leaves the loop exactly
\* where a failed write with a delivered notice leaves it: still ranging,
\* over the same remaining entries, with the same line, ticker and context,
\* the other peers' records untouched; when the range over an unchanged
\* registry is over every eligible sink was attempted; the range ends at the
\* select with the ticker channel as it was; and the loop is stopped only
\* when its context is cancelled.
NotifierBestEffort ==
  /\ [][\A p \in Peers : NoticeFails(p) =>
          /\ pc' = "range"
          /\ rangeLeft' = rangeLeft
          /\ cur = p /\ cur' = NoPeer
          /\ UNCHANGED <<buffers, ctxDone, tickC, tick, line>>
          /\ \A q \in Peers \ {p} : fan'[q] = fan[q]
          /\ [fan'[p] EXCEPT !.noticeErr = FALSE] = Outcome(p, FALSE, TRUE)
       ]_vars
  /\ [](BroadcastDone => Written = { p \in Peers : ConnectedValid(p) })
  /\ [][(BroadcastDone /\ pc' # pc) =>
          (pc' = "select" /\ UNCHANGED <<tickC, ctxDone, buffers>>)]_vars
  /\ [](pc = "stopped" => ctxDone)

\* C12 witness: the range is over, not cancelled, two sinks were eligible,
\* the write to each failed and the notice for each failed: whichever was
\* visited first, the other was attempted after an undelivered notice.
NotifierBestEffortWitness ==
  /\ BroadcastDone /\ ~ctxDone
  /\ Cardinality({ p \in Peers : ConnectedValid(p) }) >= 2
  /\ \A p \in Peers : ConnectedValid(p) => fan[p].noticeErr

\* No work of a tick is in progress.
PeerIdle ==
  /\ tick = NoTime
  /\ line = NoLine
  /\ rangeLeft = {}
  /\ cur = NoPeer
  /\ \A p \in Peers : fan[p] = NoFan

\* C13: a tick is received from the ticker only at the select and only
\* when no work of an earlier tick is in progress; a fetch begins only by
\* receiving a tick; before the range of a tick nothing has been written;
\* and the loop leaves the range only when every entry of it has been
\* visited.  A tick that fires while the work is going on waits in the
\* channel.
TicksSerialized ==
  /\ [][(tickC /\ ~tickC') => (pc = "select" /\ PeerIdle)]_vars
  /\ [][(pc # "fetch" /\ pc' = "fetch") =>
          (pc = "select" /\ tickC /\ ~tickC')]_vars
  /\ [](pc \in { "fetch", "fetcherr", "builderr" } =>
          (line = NoLine /\ rangeLeft = {} /\ \A p \in Peers : fan[p] = NoFan))
  /\ [][(pc = "range" /\ pc' # "range") => BroadcastDone]_vars

\* C13 witness: the next tick is already waiting in the channel while the
\* fan-out of the tick before it has written to one sink and still has
\* another entry to visit.
TicksSerializedWitness ==
  /\ pc = "range" /\ tickC
  /\ Written # {}
  /\ \E p \in rangeLeft : ConnectedValid(p) /\ p \notin Written

\* C14: once its cancellation signal has fired, wherever the loop is
\* waiting (at the select, for the sensor's answer, for a sink write), the
\* only step the loop takes is the one to Stopped: no fetch is answered, no
\* line built, no entry of the range visited, nothing encoded or flushed.
CancelWithinOneStep ==
  [][/\ ctxDone =>
          (pc' \in { pc, "stopped" }
             /\ UNCHANGED <<tick, line, cur, fan>>)
     /\ \A i \in Streams :
          hDone[i] =>
            (hpc'[i] \in { hpc[i], "stopped" }
               /\ UNCHANGED <<hT, hPayload, hEncErr>>)
    ]_vars

\* C16: whatever configuration the defaulting is given, the result has an
\* interval > 0 (5 seconds in place of one <= 0, else the one given), a
\* non-empty protocol id, version and sample kind (the fallback in place of
\* an empty one, else the one given) and the Enabled flag as given; applying
\* the defaulting to the result gives the result again; and the
\* configuration of the running node is that result.
ConfigDefaulting ==
  cIn # NoLine =>
    /\ cOut.StreamInterval > 0
    /\ cOut.StreamInterval =
         IF cIn.StreamInterval <= 0 THEN 5 ELSE cIn.StreamInterval
    /\ cOut.Protocol # ""
    /\ cOut.Protocol =
         IF cIn.Protocol = "" THEN "/localsense/brightness/v1"
                              ELSE cIn.Protocol
    /\ cOut.Version # ""
    /\ cOut.Version = IF cIn.Version = "" THEN "0.1.0" ELSE cIn.Version
    /\ cOut.SampleKind # ""
    /\ cOut.SampleKind =
         IF cIn.SampleKind = "" THEN "brightness_sample" ELSE cIn.SampleKind
    /\ cOut.Enabled = cIn.Enabled
    /\ ensureDefaults(cOut) = cOut
    /\ cRun # NoLine => cRun = cOut

\* C16 witness: interval 0, no protocol id and no sample kind, version
\* 2.0; the node runs with 5 seconds, the fallbacks and version 2.0.
ConfigDefaultingWitness ==
  /\ cIn = [Enabled |-> TRUE, Protocol |-> "", Version |-> "2.0",
            StreamInterval |-> 0, SampleKind |-> ""]
  /\ cRun = [Enabled |-> TRUE, Protocol |-> "/localsense/brightness/v1",
             Version |-> "2.0", StreamInterval |-> 5,
             SampleKind |-> "brightness_sample"]

\* Everything the handler of /stream request i holds.
StreamState(i) ==
  <<hDone[i], hTickC[i], hpc[i], hT[i], hPayload[i], hEncErr[i]>>

\* The loop of request j can go on from wherever it is: take a waiting
\* tick, get the sensor's answer, encode, flush, and have its ticker fire.
StreamCanGoOn(j) ==
  /\ (hpc[j] = "select" /\ hTickC[j]) => ENABLED StreamSelectTick(j)
  /\ hpc[j] = "fetch" => ENABLED StreamFetchOK(j)
  /\ hpc[j] = "encode" => ENABLED StreamEncode(j)
  /\ hpc[j] = "flush" => ENABLED StreamFlush(j)
  /\ (hpc[j] \notin { "start", "stopped" } /\ ~hTickC[j]) =>
       ENABLED StreamTickerFire(j)

\* The peer loop can go on from wherever it is.
PeerCanGoOn ==
  /\ (pc = "select" /\ tickC) => ENABLED SelectTick
  /\ pc = "fetch" => ENABLED FetchOK
  /\ (pc = "range" /\ cur = NoPeer /\ rangeLeft # {}) => ENABLED RangeStep
  /\ (pc = "range" /\ cur # NoPeer) => ENABLED RangeWrite
  /\ BroadcastDone => ENABLED RangeDone
  /\ (pc # "stopped" /\ ~tickC) => ENABLED TickerFire

\* C17: a step that changes anything of one /stream handler, its client's
\* disconnect and its return on a done context or on an Encode error
\* included, changes nothing of any other /stream handler and nothing of
\* the peer loop; and while one handler is stopped every other handler and
\* the peer loop can go on ticking, fetching and writing from wherever they
\* are.
InstanceIsolation ==
  /\ [][\A i \in Streams :
          StreamState(i)' # StreamState(i) =>
            /\ UNCHANGED peerVars
            /\ \A j \in Streams \ {i} : StreamState(j)' = StreamState(j)
       ]_vars
  /\ [](\A i \in Streams :
          hpc[i] = "stopped" =>
            /\ \A j \in Streams \ {i} : StreamCanGoOn(j)
            /\ PeerCanGoOn)

\* C17 witness: one handler has stopped on an Encode error, another, its
\* client still there, has encoded a line and is about to flush it, and the
\* peer loop, not cancelled, is in a fan-out that has written to a sink.
InstanceIsolationWitness ==
  \E i, j \in Streams :
    /\ i # j
    /\ hpc[i] = "stopped" /\ hEncErr[i]
    /\ hpc[j] = "flush" /\ ~hDone[j]
    /\ pc = "range" /\ ~ctxDone /\ Written # {}

StoppedTerminal ==
  /\ [][(pc # "stopped" /\ pc' = "stopped") =>
          (pc = "select" /\ ctxDone)]_vars
  /\ [][(pc \in { "fetcherr", "builderr" } /\ pc' # pc) =>
          pc' = "select"]_vars
  /\ [][(\E p \in Peers : fan'[p] # fan[p] /\ fan'[p].err) =>
          pc' = "range"]_vars
  /\ [][pc = "stopped" =>
          (pc' = "stopped" /\ UNCHANGED <<tickC, tick, line, cur, fan>>)]_vars
  /\ [][\A i \in Streams :
          hpc[i] = "stopped" =>
            /\ hpc'[i] = "stopped"
            /\ hTickC'[i] = hTickC[i]
            /\ hT'[i] = hT[i]
            /\ hPayload'[i] = hPayload[i]]_vars

\* C19 witness: the peer loop has stopped with a tick waiting in its
\* channel and a Connected, validated peer in the buffer map, next to a
\* stopped /stream handler with a tick waiting in its channel.
StoppedTerminalWitness ==
  /\ pc = "stopped" /\ ctxDone /\ tickC
  /\ \E p \in Peers : ConnectedValid(p)
  /\ \E i \in Streams : hpc[i] = "stopped" /\ hTickC[i]

\* The control channel of peer p.
StdInTopic(p) == [stdin |-> p]

\* The Sensor Reader is called only on receiving a tick and its return ends
\* the call: the tick goes on to the fetch error, the build error or the
\* range, none of which leads to another call.
FetchOncePerTick ==
  /\ [][(pc # "fetch" /\ pc' = "fetch") =>
          (pc = "select" /\ tickC /\ ~tickC')]_vars
  /\ [][(pc = "fetch" /\ pc' # "fetch") =>
          pc' \in { "fetcherr", "builderr", "range" }]_vars
  /\ [][(pc \in { "fetcherr", "builderr", "range" } /\ pc' # pc) =>
          pc' = "select"]_vars

\* A write that returns leaves an error notice exactly if it failed, and
\* the notice is addressed to the control channel of the peer written to;
\* an entry passed over leaves nothing.
NoticePerFailedWrite ==
  /\ [][\A p \in Peers :
          fan'[p] # fan[p] /\ fan'[p] # NoFan =>
            /\ cur = p
            /\ fan'[p].notice = fan'[p].err
            /\ fan'[p].noticeTo =
                 IF fan'[p].err THEN StdInTopic(p) ELSE NoTopic]_vars
  /\ [][(pc = "range" /\ cur = NoPeer /\ cur' = NoPeer /\ pc' = "range") =>
          fan' = fan]_vars

====
